---- MODULE Spec2Model ----
(***************************************************************************)
(* Model of src-tauri/src/lib.rs of naeyla-native: the greet command, the  *)
(* setup callback registering two global shortcuts, and the closure that   *)
(* toggles the visibility of the window "main".                            *)
(* Strings are sequences of one-character strings.                         *)
(***************************************************************************)
EXTENDS Naturals, Sequences, FiniteSets

VARIABLES
    pc,          \* "init" (before setup), "running", "aborted" (startup failed)
    registered,  \* shortcuts registered with the OS
    listeners,   \* shortcuts that have the toggle closure attached
    setupLog,    \* the plugin calls the setup callback made, in order, with outcome
    visible,     \* existing webview windows: label -> is it visible
    keyDown,     \* shortcuts whose key combination is currently held
    event,       \* the last thing the framework dispatched
    calls,       \* window API calls made by the last dispatched shortcut event
    stroke,      \* history of the current/last keystroke of the toggle shortcut
    greetOut     \* argument and return value of the last greet invocation

vars == <<pc, registered, listeners, setupLog, visible, keyDown, event, calls,
          stroke, greetOut>>

----------------------------------------------------------------------------
(* Bounds and input sets *)

MaxNameLen == 2

Chars == {"a", "{", "}"}

RECURSIVE StringsUpTo(_)
StringsUpTo(n) ==
    IF n = 0 THEN {<<>>}
    ELSE LET shorter == StringsUpTo(n - 1)
         IN shorter \cup {Append(s, c) : s \in {t \in shorter : Len(t) = n - 1}, c \in Chars}

Names == StringsUpTo(MaxNameLen)

Labels == {"main", "settings"}

Shortcut8 == "CmdOrCtrl+Shift+8"
ShortcutN == "CmdOrCtrl+Shift+N"
Shortcuts == {Shortcut8, ShortcutN}

ShortcutStates == {"Pressed", "Released"}

----------------------------------------------------------------------------
(* greet: format!("Hello, {}! You've been greeted from Rust!", name) *)

FormatString ==
    <<"H","e","l","l","o",","," ","{","}","!"," ","Y","o","u","'","v","e"," ",
      "b","e","e","n"," ","g","r","e","e","t","e","d"," ","f","r","o","m"," ",
      "R","u","s","t","!">>

NoSpec == [width |-> "none", precision |-> "none"]

\* Formatter::pad, the Display of a str: truncate to the precision, pad to the
\* width; with neither given the string is written as it is.
Pad(s, fspec) ==
    LET cut == IF fspec.precision = "none" \/ Len(s) <= fspec.precision
               THEN s ELSE SubSeq(s, 1, fspec.precision)
        fill == IF fspec.width = "none" \/ Len(cut) >= fspec.width
                THEN <<>> ELSE [i \in 1..(fspec.width - Len(cut)) |-> " "]
    IN cut \o fill

Display(s, fspec) == Pad(s, fspec)

\* The expansion of a format string with one positional argument: "{{" and
\* "}}" are literal braces, "{}" is the argument, anything else is copied.
RECURSIVE Format(_, _)
Format(fmt, arg) ==
    IF fmt = <<>> THEN <<>>
    ELSE IF Len(fmt) >= 2 /\ fmt[1] = "{" /\ fmt[2] = "{"
         THEN <<"{">> \o Format(SubSeq(fmt, 3, Len(fmt)), arg)
    ELSE IF Len(fmt) >= 2 /\ fmt[1] = "}" /\ fmt[2] = "}"
         THEN <<"}">> \o Format(SubSeq(fmt, 3, Len(fmt)), arg)
    ELSE IF Len(fmt) >= 2 /\ fmt[1] = "{" /\ fmt[2] = "}"
         THEN Display(arg, NoSpec) \o Format(SubSeq(fmt, 3, Len(fmt)), arg)
    ELSE <<fmt[1]>> \o Format(Tail(fmt), arg)

\* the argument spliced into the format string before expansion
greet_spliced(name) ==
    Format(SubSeq(FormatString, 1, 7) \o name \o SubSeq(FormatString, 10, Len(FormatString)), <<>>)

greet(name) == Format(FormatString, name)

----------------------------------------------------------------------------
(* Framework calls used by the closure *)

None == [some |-> FALSE]
Some(x) == [some |-> TRUE, val |-> x]

Ok(x) == [ok |-> TRUE, val |-> x]
Err == [ok |-> FALSE]

get_webview_window(label) ==
    IF label \in DOMAIN visible THEN Some(label) ELSE None

\* window.is_visible(): the framework answers with the truth or fails
is_visible(w, answers) == IF answers THEN Ok(visible[w]) ELSE Err

\* the fallback inverted
unwrap_or_not(r, default) == IF r.ok THEN r.val ELSE ~default

unwrap_or(r, default) == IF r.ok THEN r.val ELSE default

\* window.hide() / window.show(): a request that fails leaves the window as it was
hide(w, succeeds) == IF succeeds THEN [visible EXCEPT ![w] = FALSE] ELSE visible
show(w, succeeds) == IF succeeds THEN [visible EXCEPT ![w] = TRUE] ELSE visible

----------------------------------------------------------------------------
(* State *)

NoEvent == [kind |-> "none", sc |-> "-", state |-> "-"]
NoStroke == [phase |-> "idle", start |-> None, qOk |-> FALSE, rOk |-> FALSE]
NoGreet == [called |-> FALSE, name |-> <<>>, response |-> Err]

Init ==
    /\ pc = "init"
    /\ registered = {}
    /\ listeners = {}
    /\ setupLog = <<>>
    /\ visible \in UNION {[W -> BOOLEAN] : W \in SUBSET Labels}
    /\ keyDown = {}
    /\ event = NoEvent
    /\ calls = <<>>
    /\ stroke = NoStroke
    /\ greetOut = NoGreet

----------------------------------------------------------------------------
(* The setup callback, lines 14-33: register(Shortcut8)?, then             *)
(* on_shortcut(ShortcutN, closure)?, then Ok(()).  An Err returned by the  *)
(* callback makes run() fail and the process ends.  reg8 and lis say       *)
(* whether the plugin accepts each call.                                   *)

SetupCall(op, sc, ok) == [op |-> op, sc |-> sc, ok |-> ok]

\* the callback with the first `?` dropped: a failed register is ignored
setup_ignoring_register(reg8, lis) ==
    LET first == SetupCall("register", Shortcut8, reg8)
        second == SetupCall("on_shortcut", ShortcutN, lis)
        got8 == IF reg8 THEN {Shortcut8} ELSE {}
    IN IF ~lis
       THEN [log |-> <<first, second>>, registered |-> got8, listeners |-> {}, ret |-> Err]
       ELSE [log |-> <<first, second>>, registered |-> got8 \cup {ShortcutN},
             listeners |-> {ShortcutN}, ret |-> Ok("unit")]

\* the callback with the second `?` dropped: a failed on_shortcut is ignored
setup_ignoring_listener(reg8, lis) ==
    LET first == SetupCall("register", Shortcut8, reg8)
        second == SetupCall("on_shortcut", ShortcutN, lis)
    IN IF ~reg8
       THEN [log |-> <<first>>, registered |-> {}, listeners |-> {}, ret |-> Err]
       ELSE [log |-> <<first, second>>,
             registered |-> IF lis THEN {Shortcut8, ShortcutN} ELSE {Shortcut8},
             listeners |-> IF lis THEN {ShortcutN} ELSE {}, ret |-> Ok("unit")]

\* the callback with the closure attached to the first combination as well
setup_listening_both(reg8, lis) ==
    LET first == SetupCall("register", Shortcut8, reg8)
        second == SetupCall("on_shortcut", ShortcutN, lis)
    IN IF ~reg8
       THEN [log |-> <<first>>, registered |-> {}, listeners |-> {}, ret |-> Err]
       ELSE IF ~lis
       THEN [log |-> <<first, second>>, registered |-> {Shortcut8}, listeners |-> {},
             ret |-> Err]
       ELSE [log |-> <<first, second>>, registered |-> {Shortcut8, ShortcutN},
             listeners |-> {Shortcut8, ShortcutN}, ret |-> Ok("unit")]

\* What the callback does and returns: the calls made, what the plugin holds
\* afterwards, and Ok(()) or the propagated error.
setup(reg8, lis) ==
    LET first == SetupCall("register", Shortcut8, reg8)
        second == SetupCall("on_shortcut", ShortcutN, lis)
    IN IF ~reg8
       THEN [log |-> <<first>>, registered |-> {}, listeners |-> {}, ret |-> Err]
       ELSE IF ~lis
       THEN [log |-> <<first, second>>, registered |-> {Shortcut8}, listeners |-> {},
             ret |-> Err]
       ELSE [log |-> <<first, second>>, registered |-> {Shortcut8, ShortcutN},
             listeners |-> {ShortcutN}, ret |-> Ok("unit")]

\* Builder::run(...).expect(...): runs the callback once; an Err ends the process
Setup(reg8, lis) ==
    /\ pc = "init"
    /\ LET done == setup(reg8, lis)
       IN /\ setupLog' = done.log
          /\ registered' = done.registered
          /\ listeners' = done.listeners
          /\ pc' = IF done.ret.ok THEN "running" ELSE "aborted"
    /\ event' = [kind |-> "setup", sc |-> "-", state |-> "-"]
    /\ UNCHANGED <<visible, keyDown, calls, stroke, greetOut>>

----------------------------------------------------------------------------
(* The closure given to on_shortcut, lines 22-30.  answers: the visibility *)
(* query succeeds; succeeds: the show/hide request succeeds.  The result   *)
(* is the calls made on windows and the windows afterwards.                *)

WindowCall(op, w, res) == [op |-> op, win |-> w, res |-> res]

Request(ok) == IF ok THEN Ok("unit") ELSE Err

\* the closure issuing both requests in turn
toggle_both(answers, succeeds) ==
    LET window == get_webview_window("main")
    IN IF ~window.some
       THEN [calls |-> <<>>, visible |-> visible]
       ELSE LET w == window.val
                q == is_visible(w, answers)
            IN [calls |-> <<WindowCall("is_visible", w, q),
                            WindowCall("hide", w, Request(succeeds)),
                            WindowCall("show", w, Request(succeeds))>>,
                visible |-> show(w, succeeds)]

\* the closure retrying a failed request once
toggle_retrying(answers, succeeds) ==
    LET window == get_webview_window("main")
    IN IF ~window.some
       THEN [calls |-> <<>>, visible |-> visible]
       ELSE LET w == window.val
                q == is_visible(w, answers)
                op == IF unwrap_or(q, FALSE) THEN "hide" ELSE "show"
                once == <<WindowCall("is_visible", w, q), WindowCall(op, w, Request(succeeds))>>
            IN [calls |-> IF succeeds THEN once
                          ELSE Append(once, WindowCall(op, w, Request(succeeds))),
                visible |-> IF op = "hide" THEN hide(w, succeeds) ELSE show(w, succeeds)]

\* the closure falling back to the first window when "main" is missing
toggle_any_window(answers, succeeds) ==
    LET window == IF get_webview_window("main").some \/ DOMAIN visible = {}
                  THEN get_webview_window("main")
                  ELSE Some(CHOOSE l \in DOMAIN visible : TRUE)
    IN IF ~window.some
       THEN [calls |-> <<>>, visible |-> visible]
       ELSE LET w == window.val
                q == is_visible(w, answers)
            IN IF unwrap_or(q, FALSE)
               THEN [calls |-> <<WindowCall("is_visible", w, q),
                                 WindowCall("hide", w, Request(succeeds))>>,
                     visible |-> hide(w, succeeds)]
               ELSE [calls |-> <<WindowCall("is_visible", w, q),
                                 WindowCall("show", w, Request(succeeds))>>,
                     visible |-> show(w, succeeds)]

toggle(answers, succeeds) ==
    LET window == get_webview_window("main")
    IN IF ~window.some
       THEN [calls |-> <<>>, visible |-> visible]
       ELSE LET w == window.val
                q == is_visible(w, answers)
            IN IF unwrap_or(q, FALSE)
               THEN [calls |-> <<WindowCall("is_visible", w, q),
                                 WindowCall("hide", w, Request(succeeds))>>,
                     visible |-> hide(w, succeeds)]
               ELSE [calls |-> <<WindowCall("is_visible", w, q),
                                 WindowCall("show", w, Request(succeeds))>>,
                     visible |-> show(w, succeeds)]

Nothing == [calls |-> <<>>, visible |-> visible]

\* the closure acting on key presses only
closure_on_pressed(shortcut, ev, answers, succeeds) ==
    IF ev = "Pressed" THEN toggle(answers, succeeds) ELSE Nothing

\* move |_app, _shortcut, _event| { ... }: the shortcut and the event are not read
closure(shortcut, ev, answers, succeeds) == toggle(answers, succeeds)

----------------------------------------------------------------------------
(* The plugin delivering an event of a registered shortcut: the closure    *)
(* attached to that shortcut, if any, is called.  A combination is pressed *)
(* before it is released.                                                  *)

QueryOk(cs) == Len(cs) >= 1 /\ cs[1].op = "is_visible" /\ cs[1].res.ok
RequestOk(cs) == Len(cs) = 2 /\ cs[2].op \in {"show", "hide"} /\ cs[2].res.ok

StartOf(label) == IF label \in DOMAIN visible THEN Some(visible[label]) ELSE None

StrokeAfter(ev, cs) ==
    IF ev = "Pressed"
    THEN [phase |-> "down", start |-> StartOf("main"), qOk |-> QueryOk(cs), rOk |-> RequestOk(cs)]
    ELSE [phase |-> "up", start |-> stroke.start,
          qOk |-> stroke.qOk /\ QueryOk(cs), rOk |-> stroke.rOk /\ RequestOk(cs)]

ShortcutEvent(sc, ev, answers, succeeds) ==
    /\ pc = "running"
    /\ sc \in registered
    /\ IF ev = "Pressed" THEN sc \notin keyDown ELSE sc \in keyDown
    /\ keyDown' = IF ev = "Pressed" THEN keyDown \cup {sc} ELSE keyDown \ {sc}
    /\ LET done == IF sc \in listeners THEN closure(sc, ev, answers, succeeds) ELSE Nothing
       IN /\ calls' = done.calls
          /\ visible' = done.visible
          /\ stroke' = IF sc = ShortcutN THEN StrokeAfter(ev, done.calls) ELSE stroke
    /\ event' = [kind |-> "shortcut", sc |-> sc, state |-> ev]
    /\ UNCHANGED <<pc, registered, listeners, setupLog, greetOut>>

\* A window other than the last one is closed; get_webview_window then finds
\* none under its label.
CloseWindow(label) ==
    /\ pc = "running"
    /\ label \in DOMAIN visible
    /\ DOMAIN visible # {label}
    /\ visible' = [l \in DOMAIN visible \ {label} |-> visible[l]]
    /\ event' = [kind |-> "close", sc |-> label, state |-> "-"]
    /\ UNCHANGED <<pc, registered, listeners, setupLog, keyDown, calls, stroke,
                   greetOut>>

----------------------------------------------------------------------------
(* The greet command invoked through generate_handler![greet], line 34 *)

\* greet over the inputs of the model, evaluated once
GreetTable == [n \in Names |-> greet(n)]

\* a command returning a plain String always resolves
GreetResponse(name) == [called |-> TRUE, name |-> name, response |-> Ok(GreetTable[name])]

\* greet hiding the main window on its way
Greet_hiding(name) ==
    /\ pc = "running"
    /\ greetOut' = GreetResponse(name)
    /\ event' = [kind |-> "greet", sc |-> "-", state |-> "-"]
    /\ visible' = IF "main" \in DOMAIN visible THEN hide("main", TRUE) ELSE visible
    /\ UNCHANGED <<pc, registered, listeners, setupLog, keyDown, calls, stroke>>

Greet(name) ==
    /\ pc = "running"
    /\ greetOut' = GreetResponse(name)
    /\ event' = [kind |-> "greet", sc |-> "-", state |-> "-"]
    /\ UNCHANGED <<pc, registered, listeners, setupLog, visible, keyDown, calls, stroke>>

----------------------------------------------------------------------------

Next ==
    \/ \E reg8, lis \in BOOLEAN : Setup(reg8, lis)
    \/ \E sc \in Shortcuts, ev \in ShortcutStates, answers, succeeds \in BOOLEAN :
          ShortcutEvent(sc, ev, answers, succeeds)
    \/ \E label \in Labels : CloseWindow(label)
    \/ \E name \in Names : Greet(name)

Spec == Init /\ [][Next]_vars

----------------------------------------------------------------------------
(* Properties *)

HelloComma == <<"H","e","l","l","o",","," ">>
GreetedFromRust ==
    <<"!"," ","Y","o","u","'","v","e"," ","b","e","e","n"," ","g","r","e","e","t",
      "e","d"," ","f","r","o","m"," ","R","u","s","t","!">>

IsEvent(e, sc) == e.kind = "shortcut" /\ e.sc = sc
MainPresent == "main" \in DOMAIN visible
Requests(cs) == {i \in 1..Len(cs) : cs[i].op \in {"show", "hide"}}
Queries(cs) == {i \in 1..Len(cs) : cs[i].op = "is_visible"}

\* C1: for every name S, greet answers without error with exactly
\* "Hello, " + S + "! You've been greeted from Rust!", S unchanged, also when
\* S is empty or holds braces.
C1_GreetExact ==
    greetOut.called =>
        /\ greetOut.response.ok
        /\ greetOut.response.val = HelloComma \o greetOut.name \o GreetedFromRust

C1_Witness == greetOut.called /\ greetOut.name = <<"{", "}">>

\* C2: when the closure has run with "main" present, a query that reported
\* visible was followed by a hide request, and a query that reported hidden,
\* or that failed, by a show request.
C2_ToggleChoice ==
    (event.kind = "shortcut" /\ event.sc \in listeners /\ MainPresent) =>
        /\ Len(calls) >= 2
        /\ calls[1].op = "is_visible"
        /\ (calls[1].res.ok /\ calls[1].res.val) => calls[2].op = "hide"
        /\ (calls[1].res.ok /\ ~calls[1].res.val) => calls[2].op = "show"
        /\ ~calls[1].res.ok => calls[2].op = "show"

C2_Witness ==
    /\ IsEvent(event, ShortcutN) /\ MainPresent
    /\ Len(calls) = 2 /\ ~calls[1].res.ok /\ calls[2].op = "show"

\* C3: once registering the first shortcut has failed, the callback has
\* returned the error without calling on_shortcut, startup is aborted for
\* good, no listener is attached and no window call is ever made.
C3_RegisterFailureAborts ==
    (Len(setupLog) >= 1 /\ ~setupLog[1].ok) =>
        /\ pc = "aborted"
        /\ setupLog = <<SetupCall("register", Shortcut8, FALSE)>>
        /\ listeners = {}
        /\ ShortcutN \notin registered
        /\ calls = <<>>
        /\ event.kind = "setup"

C3_Witness == pc = "aborted" /\ Len(setupLog) = 1 /\ ~setupLog[1].ok

\* C4: once attaching the listener has failed after the first registration
\* succeeded, startup is aborted for good; and whenever the application is
\* running, register(first) and on_shortcut(second) both succeeded, in that
\* order.
C4_ListenerFailureAborts ==
    /\ (Len(setupLog) = 2 /\ ~setupLog[2].ok) =>
           /\ pc = "aborted"
           /\ setupLog[1] = SetupCall("register", Shortcut8, TRUE)
           /\ setupLog[2] = SetupCall("on_shortcut", ShortcutN, FALSE)
           /\ listeners = {}
           /\ calls = <<>>
           /\ event.kind = "setup"
    /\ pc = "running" =>
           /\ setupLog = <<SetupCall("register", Shortcut8, TRUE),
                           SetupCall("on_shortcut", ShortcutN, TRUE)>>
           /\ registered = {Shortcut8, ShortcutN}
           /\ ShortcutN \in listeners

C4_Witness == pc = "aborted" /\ Len(setupLog) = 2 /\ ~setupLog[2].ok

\* C5: after the closure ran and its query or its request failed, the
\* application is still running with the listener registered, the failed call
\* was not repeated (one query, one request), and the next event of the
\* shortcut can be delivered.
C5_FailuresIgnored ==
    (IsEvent(event, ShortcutN) /\ \E i \in 1..Len(calls) : ~calls[i].res.ok) =>
        /\ pc = "running"
        /\ ShortcutN \in listeners
        /\ ShortcutN \in registered
        /\ Cardinality(Queries(calls)) = 1
        /\ Cardinality(Requests(calls)) = 1
        /\ Len(calls) = 2
        /\ ENABLED (\E ev \in ShortcutStates, answers, succeeds \in BOOLEAN :
                       ShortcutEvent(ShortcutN, ev, answers, succeeds))

C5_Witness ==
    /\ IsEvent(event, ShortcutN)
    /\ Len(calls) = 2 /\ ~calls[1].res.ok /\ ~calls[2].res.ok

\* C6: a greet invocation changes neither the windows nor the registered
\* shortcuts and listeners, makes no window call, and answers a name it was
\* asked before with the same response.
C6_GreetPure ==
    [][event'.kind = "greet" =>
          /\ UNCHANGED <<visible, registered, listeners, calls, pc, keyDown, setupLog>>
          /\ (greetOut.called /\ greetOut'.name = greetOut.name) =>
                 greetOut'.response = greetOut.response]_vars

C6_Witness ==
    /\ event.kind = "greet" /\ MainPresent /\ visible["main"]
    /\ Len(calls) = 2 /\ calls[2].op = "show"

\* C7: an invocation of the closure with "main" present makes exactly two
\* window calls, a visibility query and then one request, show or hide; and
\* two invocations whose queries gave the same result make the same request.
C7_OneQueryOneRequest ==
    [][(IsEvent(event', ShortcutN) /\ "main" \in DOMAIN visible') =>
          /\ Len(calls') = 2
          /\ calls'[1].op = "is_visible"
          /\ calls'[2].op \in {"show", "hide"}
          /\ (Len(calls) = 2 /\ calls[1].res = calls'[1].res) => calls'[2].op = calls[2].op]_vars

C7_Witness ==
    /\ IsEvent(event, ShortcutN) /\ event.state = "Released" /\ MainPresent
    /\ Len(calls) = 2 /\ calls[2].op = "hide" /\ ~calls[2].res.ok

\* C8: the closure is attached to the second combination only: an event of
\* the first combination makes no window call and leaves the windows as they
\* are, and a window's visibility changes only in a step delivering an event
\* of the second combination.
C8_ToggleBoundToSecondOnly ==
    [][/\ listeners' \subseteq {ShortcutN}
       /\ IsEvent(event', Shortcut8) => (calls' = <<>> /\ visible' = visible)
       /\ \A l \in DOMAIN visible \cap DOMAIN visible' :
              visible'[l] # visible[l] => IsEvent(event', ShortcutN)]_vars

C8_Witness == IsEvent(event, Shortcut8) /\ MainPresent /\ visible["main"]

\* C9 as stated: after a pressed and a released event of the second
\* combination whose show/hide requests both succeeded, "main" is as visible
\* as it was before the pressed event.
C9_KeystrokeRestoresVisibility ==
    (stroke.phase = "up" /\ stroke.rOk /\ MainPresent) =>
        Some(visible["main"]) = stroke.start

\* C9 as amended: every event of the second combination, pressed or released,
\* makes a request when "main" is present; and after a pressed and a released
\* event whose visibility queries and show/hide requests all succeeded, "main"
\* is as visible as it was before the pressed event.
C9_KeystrokeRestoresWhenQueriesSucceed ==
    /\ (IsEvent(event, ShortcutN) /\ MainPresent) =>
           (Len(calls) = 2 /\ calls[2].op \in {"show", "hide"})
    /\ (stroke.phase = "up" /\ stroke.rOk /\ stroke.qOk /\ MainPresent) =>
           Some(visible["main"]) = stroke.start

C9_Witness ==
    /\ IsEvent(event, ShortcutN) /\ event.state = "Released"
    /\ stroke.phase = "up" /\ stroke.rOk /\ stroke.qOk

\* C10: delivered while no window "main" exists, the closure makes no window
\* call, changes no window and the application keeps running; and every
\* window call the closure ever makes is on "main", the other windows staying
\* as they are.
C10_NoMainNoCalls ==
    [][/\ (IsEvent(event', ShortcutN) /\ "main" \notin DOMAIN visible) =>
              (calls' = <<>> /\ visible' = visible /\ pc' = "running")
       /\ \A i \in 1..Len(calls') : calls'[i].win = "main"
       /\ \A l \in (DOMAIN visible \cap DOMAIN visible') \ {"main"} :
              visible'[l] = visible[l]]_vars

C10_Witness ==
    /\ IsEvent(event, ShortcutN) /\ ~MainPresent /\ "settings" \in DOMAIN visible

====
